---- MODULE Spec2Model ----
(***************************************************************************)
(* A model of the `either` crate (src/lib.rs): the two-case sum type       *)
(* Either<L, R>, its combinators, its conversions to and from Result, the  *)
(* try_left!/try_right! macros and the impls that forward Iterator and     *)
(* Read/BufRead/Write to the active variant.                               *)
(*                                                                         *)
(* Values are records: an Either is [tag |-> "Left"|"Right", val |-> p],   *)
(* an Option is [tag |-> "Some", val |-> p] or [tag |-> "None"], a Result  *)
(* is [tag |-> "Ok"|"Err", val |-> p].  A call of a caller-supplied        *)
(* closure is recorded in a log, so that "f was invoked once" is a fact    *)
(* of the state.                                                           *)
(***************************************************************************)
EXTENDS Integers, Sequences, FiniteSets, TLC

\* Payloads of both variants are drawn from 0..MaxVal.
MaxVal == 2

Vals == 0..MaxVal

VARIABLES
    self,   \* the Either<L, R> value the combinators are called on
    pair,   \* an Either of pairs, the receiver of factor_first / factor_second
    res,    \* a Result<R, L> value, the argument of From::from
    op,     \* the name of the last operation called
    arg,    \* the arguments of the last call, besides the receiver
    ret,    \* what the last call returned
    log,    \* the closure invocations the last call made, in order
    tfn,    \* the function using try_left!/try_right! that was called last
    tpc,    \* where that function is: "idle", "try", "rest" or "returned"
    wrapper,\* the Either expression the macro is applied to
    value,  \* the local the macro's value is bound to
    tret,   \* what the function returned
    steps,  \* the steps of the function's body executed in this call
    iter,   \* an Either<L, R> of two iterators
    alone,  \* the same iterator as the active one of iter, called directly
    ipc,    \* "live", or "moved" once a by-value method consumed iter
    iop,    \* the last Iterator method called, with its argument in iarg
    iarg,
    iprev,  \* iter as it was before that call
    iret,   \* what the call on iter returned
    aret,   \* what the same call on alone returned
    stream, \* an Either<L, R> of two byte streams, readers or writers
    salone, \* the same stream as the active one of stream, called directly
    sorig,  \* stream as it was constructed
    sgot,   \* the bytes the calls on stream have handed out or skipped so far
    sop,    \* the last Read/BufRead/Write method called, its argument in sarg
    sarg,
    sprev,  \* stream as it was before that call
    sret,   \* what the call on stream returned
    saret,  \* what the same call on salone returned
    dst,    \* the caller's buffer after the call on stream
    adst,   \* the caller's buffer after the call on salone
    ncalls, \* the number of calls made on stream
    subject,\* which value is being mutated: "num", "vec", "iter" or "stream"
    mval,   \* an Either<u32, u32> or Either<Vec<u32>, Vec<u32>> held in a let mut
    mprev,  \* mval as it was before the last operation on it
    mop,    \* the last operation on mval, with its argument in marg
    marg

cvars == <<self, pair, res, op, arg, ret, log>>

tvars == <<tfn, tpc, wrapper, value, tret, steps>>

ivars == <<iter, alone, ipc, iop, iarg, iprev, iret, aret>>

svars == <<stream, salone, sorig, sgot, sop, sarg, sprev, sret, saret, dst, adst, ncalls>>

mvars == <<subject, mval, mprev, mop, marg>>

vars == <<cvars, tvars, ivars, svars, mvars>>

(***************************************************************************)
(* The variant type and the std types it is converted to.                  *)
(***************************************************************************)
Left(l) == [tag |-> "Left", val |-> l]

Right(r) == [tag |-> "Right", val |-> r]

Either(L, R) == {Left(l) : l \in L} \cup {Right(r) : r \in R}

Some(x) == [tag |-> "Some", val |-> x]

None == [tag |-> "None"]

Ok(o) == [tag |-> "Ok", val |-> o]

Err(e) == [tag |-> "Err", val |-> e]

Result(T, E) == {Ok(o) : o \in T} \cup {Err(e) : e \in E}

\* A Range<i32> start..end and the vec::IntoIter<i32> of a Vec's items.
Range(a, b) == [kind |-> "Range", start |-> a, end |-> b]

VecIter(v) == [kind |-> "VecIter", items |-> v]

\* Byte streams: &[u8] and &mut [u8] over a buffer, and the live stdin and
\* stdout, which hold the bytes pending or written and may be failing.
Slice(d) == [kind |-> "Slice", data |-> d]

SliceMut(b, p) == [kind |-> "SliceMut", buf |-> b, pos |-> p]

Stdin(d, e) == [kind |-> "Stdin", data |-> d, err |-> e]

Stdout(d, e) == [kind |-> "Stdout", data |-> d, err |-> e]

(***************************************************************************)
(* The parts of the state a specification does not use stay as follows.    *)
(***************************************************************************)
NoArg == <<>>

CombIdle ==
    /\ self = Left(0)
    /\ pair = Left(<<0, 0>>)
    /\ res = Ok(0)
    /\ op = "none"
    /\ arg = NoArg
    /\ ret = NoArg
    /\ log = <<>>

TryIdle ==
    /\ tfn = "none"
    /\ tpc = "idle"
    /\ wrapper = Left(0)
    /\ value = 0
    /\ tret = Left(0)
    /\ steps = <<>>

IterIdle ==
    /\ iter = Left(Range(0, 0))
    /\ alone = Range(0, 0)
    /\ ipc = "idle"
    /\ iop = "none"
    /\ iarg = NoArg
    /\ iprev = Left(Range(0, 0))
    /\ iret = NoArg
    /\ aret = NoArg

StreamIdle ==
    /\ stream = Right(Slice(<<>>))
    /\ salone = Slice(<<>>)
    /\ sorig = Right(Slice(<<>>))
    /\ sgot = <<>>
    /\ sop = "none"
    /\ sarg = NoArg
    /\ sprev = Right(Slice(<<>>))
    /\ sret = NoArg
    /\ saret = NoArg
    /\ dst = <<>>
    /\ adst = <<>>
    /\ ncalls = 0

MutIdle ==
    /\ subject = "none"
    /\ mval = Left(0)
    /\ mprev = Left(0)
    /\ mop = "none"
    /\ marg = NoArg

(***************************************************************************)
(* Closures a caller passes.  FnOnce(L) -> M closures are the ones of the  *)
(* doc examples; a call returns the value and the one-entry log of it.     *)
(***************************************************************************)
Fns == {"double", "square", "negate"}

ApplyFn(f, x) ==
    CASE f = "double" -> x * 2
      [] f = "square" -> x * x
      [] f = "negate" -> 0 - x

\* FnOnce(L) -> Either<S, R> closures: the constructors and |x| Right(x * 2).
EitherFns == {"Left", "Right", "RightDouble"}

ApplyEitherFn(f, x) ==
    CASE f = "Left" -> Left(x)
      [] f = "Right" -> Right(x)
      [] f = "RightDouble" -> Right(x * 2)

\* FnOnce(Ctx, L) -> T closures; the context is a Vec the closure pushes to,
\* and the value returned stands for the Vec after the call.
CtxFns == {"push", "push_neg"}

ApplyCtxFn(f, ctx, x) ==
    CASE f = "push" -> Append(ctx, x)
      [] f = "push_neg" -> Append(ctx, 0 - x)

Ctxs == {<<>>, <<2>>}

Call(who, f, x) ==
    [val |-> ApplyFn(f, x), log |-> <<[who |-> who, arg |-> x]>>]

CallEither(who, f, x) ==
    [val |-> ApplyEitherFn(f, x), log |-> <<[who |-> who, arg |-> x]>>]

CallCtx(who, f, ctx, x) ==
    [val |-> ApplyCtxFn(f, ctx, x),
     log |-> <<[who |-> who, ctx |-> ctx, arg |-> x]>>]

NoCall(v) == [val |-> v, log |-> <<>>]

(***************************************************************************)
(* impl<L, R> Either<L, R>: queries.                                       *)
(***************************************************************************)
is_left(e) == IF e.tag = "Left" THEN TRUE ELSE FALSE

\* is_right without the negation.
is_right_same(e) == is_left(e)

is_right(e) == ~is_left(e)

left(e) == IF e.tag = "Left" THEN Some(e.val) ELSE None

right(e) == IF e.tag = "Left" THEN None ELSE Some(e.val)

\* A reference is the place it points to: the payload slot of the receiver.
Ref(slot, mutable) == [slot |-> slot, mut |-> mutable]

Deref(e, r) == IF e.tag = r.slot THEN Some(e.val) ELSE None

as_ref(e) ==
    IF e.tag = "Left" THEN Left(Ref("Left", FALSE)) ELSE Right(Ref("Right", FALSE))

\* as_mut whose Right arm hands the reference out as Left.
as_mut_left(e) == IF e.tag = "Left" THEN Left(Ref("Left", TRUE)) ELSE Left(Ref("Right", TRUE))

as_mut(e) ==
    IF e.tag = "Left" THEN Left(Ref("Left", TRUE)) ELSE Right(Ref("Right", TRUE))

\* flip whose second arm keeps the variant.
flip_right_kept(e) == IF e.tag = "Left" THEN Right(e.val) ELSE Right(e.val)

flip(e) == IF e.tag = "Left" THEN Right(e.val) ELSE Left(e.val)

(***************************************************************************)
(* impl<L, R> Either<L, R>: transforms.  Each returns [val, log].          *)
(***************************************************************************)

\* map_left that applies f in both arms.
map_left_both(e, f) ==
    IF e.tag = "Left"
    THEN LET c == Call("f", f, e.val) IN [val |-> Left(c.val), log |-> c.log]
    ELSE LET c == Call("f", f, e.val) IN [val |-> Right(c.val), log |-> c.log]

map_left(e, f) ==
    IF e.tag = "Left"
    THEN LET c == Call("f", f, e.val) IN [val |-> Left(c.val), log |-> c.log]
    ELSE NoCall(Right(e.val))

map_right(e, f) ==
    IF e.tag = "Left"
    THEN NoCall(Left(e.val))
    ELSE LET c == Call("f", f, e.val) IN [val |-> Right(c.val), log |-> c.log]

\* either with g in both arms.
either_g_only(e, f, g) ==
    IF e.tag = "Left" THEN Call("g", g, e.val) ELSE Call("g", g, e.val)

either(e, f, g) ==
    IF e.tag = "Left" THEN Call("f", f, e.val) ELSE Call("g", g, e.val)

either_with(e, ctx, f, g) ==
    IF e.tag = "Left" THEN CallCtx("f", f, ctx, e.val) ELSE CallCtx("g", g, ctx, e.val)

\* left_and_then that rewraps f's result in Left, as map_left does.
left_and_then_rewrap(e, f) ==
    IF e.tag = "Left"
    THEN LET c == CallEither("f", f, e.val) IN [val |-> Left(c.val.val), log |-> c.log]
    ELSE NoCall(Right(e.val))

left_and_then(e, f) ==
    IF e.tag = "Left" THEN CallEither("f", f, e.val) ELSE NoCall(Right(e.val))

right_and_then(e, f) ==
    IF e.tag = "Left" THEN NoCall(Left(e.val)) ELSE CallEither("f", f, e.val)

(***************************************************************************)
(* impl Either<(T, L), (T, R)> and impl Either<(L, T), (R, T)>.            *)
(***************************************************************************)

\* factor_first that takes the second field for the shared one.
factor_first_swapped(e) ==
    IF e.tag = "Left" THEN <<e.val[2], Left(e.val[1])>> ELSE <<e.val[2], Right(e.val[1])>>

factor_first(e) ==
    IF e.tag = "Left" THEN <<e.val[1], Left(e.val[2])>> ELSE <<e.val[1], Right(e.val[2])>>

factor_second(e) ==
    IF e.tag = "Left" THEN <<Left(e.val[1]), e.val[2]>> ELSE <<Right(e.val[1]), e.val[2]>>

(***************************************************************************)
(* impl From<Result<R, L>> for Either<L, R>, impl Into<Result<R, L>>.      *)
(***************************************************************************)

\* from with the pairing swapped.
from_swapped(r) == IF r.tag = "Err" THEN Right(r.val) ELSE Left(r.val)

from(r) == IF r.tag = "Err" THEN Left(r.val) ELSE Right(r.val)

into(e) == IF e.tag = "Left" THEN Err(e.val) ELSE Ok(e.val)

(***************************************************************************)
(* The combinators as calls on the values of the state.                    *)
(***************************************************************************)
Record(o, a, r, l) ==
    /\ op' = o
    /\ arg' = a
    /\ ret' = r
    /\ log' = l
    /\ UNCHANGED <<self, pair, res>>
    /\ UNCHANGED <<tvars, ivars, svars, mvars>>

IsLeft == Record("is_left", NoArg, is_left(self), <<>>)

IsRight == Record("is_right", NoArg, is_right(self), <<>>)

LeftOpt == Record("left", NoArg, left(self), <<>>)

RightOpt == Record("right", NoArg, right(self), <<>>)

AsRef == Record("as_ref", NoArg, as_ref(self), <<>>)

AsMut == Record("as_mut", NoArg, as_mut(self), <<>>)

Flip == Record("flip", NoArg, flip(self), <<>>)

MapLeft ==
    \E f \in Fns :
        LET c == map_left(self, f) IN Record("map_left", <<f>>, c.val, c.log)

MapRight ==
    \E f \in Fns :
        LET c == map_right(self, f) IN Record("map_right", <<f>>, c.val, c.log)

EitherCall ==
    \E f \in Fns, g \in Fns :
        LET c == either(self, f, g) IN Record("either", <<f, g>>, c.val, c.log)

EitherWith ==
    \E ctx \in Ctxs, f \in CtxFns, g \in CtxFns :
        LET c == either_with(self, ctx, f, g)
        IN Record("either_with", [ctx |-> ctx, f |-> f, g |-> g], c.val, c.log)

LeftAndThen ==
    \E f \in EitherFns :
        LET c == left_and_then(self, f) IN Record("left_and_then", <<f>>, c.val, c.log)

RightAndThen ==
    \E f \in EitherFns :
        LET c == right_and_then(self, f) IN Record("right_and_then", <<f>>, c.val, c.log)

FactorFirst == Record("factor_first", NoArg, factor_first(pair), <<>>)

FactorSecond == Record("factor_second", NoArg, factor_second(pair), <<>>)

FromResult == Record("from", NoArg, from(res), <<>>)

IntoResult == Record("into", NoArg, into(self), <<>>)

Init ==
    /\ MutIdle
    /\ StreamIdle
    /\ TryIdle
    /\ IterIdle
    /\ self \in Either(Vals, Vals)
    /\ pair \in Either(Vals \X Vals, Vals \X Vals)
    /\ res \in Result(Vals, Vals)
    /\ op = "none"
    /\ arg = NoArg
    /\ ret = NoArg
    /\ log = <<>>

Next ==
    \/ IsLeft
    \/ IsRight
    \/ LeftOpt
    \/ RightOpt
    \/ AsRef
    \/ AsMut
    \/ Flip
    \/ MapLeft
    \/ MapRight
    \/ EitherCall
    \/ EitherWith
    \/ LeftAndThen
    \/ RightAndThen
    \/ FactorFirst
    \/ FactorSecond
    \/ FromResult
    \/ IntoResult

Spec == Init /\ [][Next]_vars

(***************************************************************************)
(* macro_rules! try_left / try_right, and the functions that use them:     *)
(* `twice` of the macro's documentation and `a`, `b` of the test `macros`. *)
(* The tests apply the macros to one literal each; here the expression is  *)
(* an input, so that both arms of each macro run.                          *)
(***************************************************************************)
Str(s) == [ty |-> "str", s |-> s]

String(s) == [ty |-> "String", s |-> s]

Strs == {Str("ups"), Str("foo bar")}

U32s == Vals \cup {1337}

\* The type From::from converts the escaping payload to: the payload type of
\* the escaping variant in the enclosing function's return type.
EscapeType(fn) == IF fn = "b" THEN "String" ELSE "same"

\* ::std::convert::From::from(err): String::from(&str) makes an owned String
\* of the same text; From<T> for T returns its argument.
From_from(ty, v) == IF ty = "String" THEN String(v.s) ELSE v

\* try_left whose Right arm evaluates to the payload instead of returning.
try_left_no_return(e, ty) == [flow |-> "value", val |-> e.val]

\* The macros evaluate to a value, or make the enclosing function return.
try_left(e, ty) ==
    IF e.tag = "Left"
    THEN [flow |-> "value", val |-> e.val]
    ELSE [flow |-> "return", val |-> Right(From_from(ty, e.val))]

try_right(e, ty) ==
    IF e.tag = "Left"
    THEN [flow |-> "return", val |-> Left(From_from(ty, e.val))]
    ELSE [flow |-> "value", val |-> e.val]

TryInputs(fn) ==
    CASE fn = "twice" -> Either(U32s, Strs)
      [] fn = "a" -> Either(U32s, U32s)
      [] fn = "b" -> Either(Strs, Strs)

\* The caller calls one of the functions with an Either.
CallFn ==
    /\ tpc \in {"idle", "returned"}
    /\ \E fn \in {"twice", "a", "b"} :
        /\ tfn' = fn
        /\ wrapper' \in TryInputs(fn)
    /\ tpc' = "try"
    /\ value' = 0
    /\ steps' = <<>>
    /\ UNCHANGED tret
    /\ UNCHANGED <<cvars, ivars, svars, mvars>>

\* let value = try_left!(wrapper);  or the try_right!(..) inside Right(..).
TryStep ==
    /\ tpc = "try"
    /\ LET m == IF tfn = "b"
                THEN try_right(wrapper, EscapeType(tfn))
                ELSE try_left(wrapper, EscapeType(tfn))
       IN  /\ steps' = Append(steps, "try")
           /\ IF m.flow = "value"
              THEN /\ value' = m.val
                   /\ tpc' = "rest"
                   /\ UNCHANGED tret
              ELSE /\ tret' = m.val
                   /\ tpc' = "returned"
                   /\ UNCHANGED value
    /\ UNCHANGED <<tfn, wrapper>>
    /\ UNCHANGED <<cvars, ivars, svars, mvars>>

\* The rest of the body: Left(value * 2) in twice and a, Right(value) in b.
RestStep ==
    /\ tpc = "rest"
    /\ tret' = IF tfn = "b" THEN Right(value) ELSE Left(value * 2)
    /\ steps' = Append(steps, "rest")
    /\ tpc' = "returned"
    /\ UNCHANGED <<tfn, wrapper, value>>
    /\ UNCHANGED <<cvars, ivars, svars, mvars>>

InitTry ==
    /\ MutIdle
    /\ StreamIdle
    /\ CombIdle
    /\ TryIdle
    /\ IterIdle

NextTry ==
    \/ CallFn
    \/ TryStep
    \/ RestStep

SpecTry == InitTry /\ [][NextTry]_vars

\* C7: try_left!(Left(v)) is v and the function goes on with the rest of its
\* body; try_left!(Right(err)) makes the function return Right(From::from(err))
\* at once, and nothing after the macro runs.  try_right! is the mirror.
C7_TryEarlyReturn ==
    /\ tpc = "rest" =>
        /\ wrapper.tag = (IF tfn = "b" THEN "Right" ELSE "Left")
        /\ value = wrapper.val
        /\ steps = <<"try">>
    /\ (tpc = "returned" /\ tfn \in {"twice", "a"}) =>
        /\ wrapper.tag = "Left" =>
            /\ value = wrapper.val
            /\ tret = Left(wrapper.val * 2)
            /\ steps = <<"try", "rest">>
        /\ wrapper.tag = "Right" =>
            /\ tret = Right(wrapper.val)
            /\ steps = <<"try">>
    /\ (tpc = "returned" /\ tfn = "b") =>
        /\ wrapper.tag = "Right" =>
            /\ value = wrapper.val
            /\ tret = Right(wrapper.val)
            /\ steps = <<"try", "rest">>
        /\ wrapper.tag = "Left" =>
            /\ tret = Left(String(wrapper.val.s))
            /\ tret.val # wrapper.val
            /\ steps = <<"try">>
    /\ (tpc = "returned" /\ tfn = "a" /\ wrapper.tag = "Right") =>
        (wrapper.val = 1337 => tret = Right(1337))

C7_Witness ==
    /\ tpc = "returned"
    /\ tfn = "b"
    /\ wrapper = Left(Str("foo bar"))
    /\ tret = Left(String("foo bar"))
    /\ steps = <<"try">>

(***************************************************************************)
(* The iterators the variants hold: a Range<i32> as 0..10 of the test      *)
(* `iter`, and a vec::IntoIter<i32> as into_iter() makes of a Vec.  Each   *)
(* method returns the iterator after the call and the value returned.      *)
(***************************************************************************)
\* The items the iterator has left, front to back.
Items(it) ==
    IF it.kind = "Range"
    THEN [i \in 1..(IF it.end > it.start THEN it.end - it.start ELSE 0)
            |-> it.start + i - 1]
    ELSE it.items

\* The iterator with its first k items taken.
Advance(it, k) ==
    IF it.kind = "Range"
    THEN [it EXCEPT !.start = @ + k]
    ELSE [it EXCEPT !.items = SubSeq(@, k + 1, Len(@))]

Iter_next(it) ==
    IF Len(Items(it)) = 0
    THEN [it |-> it, out |-> None]
    ELSE [it |-> Advance(it, 1), out |-> Some(Items(it)[1])]

Iter_next_back(it) ==
    LET n == Len(Items(it)) IN
    IF n = 0
    THEN [it |-> it, out |-> None]
    ELSE [it |-> IF it.kind = "Range"
                 THEN [it EXCEPT !.end = @ - 1]
                 ELSE [it EXCEPT !.items = SubSeq(@, 1, n - 1)],
          out |-> Some(Items(it)[n])]

Iter_nth(it, n) ==
    IF n < Len(Items(it))
    THEN [it |-> Advance(it, n + 1), out |-> Some(Items(it)[n + 1])]
    ELSE [it |-> Advance(it, Len(Items(it))), out |-> None]

Iter_size_hint(it) == <<Len(Items(it)), Some(Len(Items(it)))>>

Iter_count(it) == Len(Items(it))

Iter_last(it) ==
    IF Len(Items(it)) = 0 THEN None ELSE Some(Items(it)[Len(Items(it))])

Iter_collect(it) == Items(it)

\* FnMut(Acc, Item) -> Acc closures for fold.
FoldFns == {"sum", "shift"}

ApplyFoldFn(f, acc, x) ==
    CASE f = "sum" -> acc + x
      [] f = "shift" -> acc * 2 + x

RECURSIVE FoldSeq(_, _, _)
FoldSeq(items, acc, f) ==
    IF items = <<>> THEN acc ELSE FoldSeq(Tail(items), ApplyFoldFn(f, acc, Head(items)), f)

Iter_fold(it, init, f) == FoldSeq(Items(it), init, f)

\* all(|x| x < p) stops at the first item that fails, which it has taken.
Iter_all(it, p) ==
    LET els == Items(it)
        bad == {i \in 1..Len(els) : ~(els[i] < p)}
    IN  IF bad = {}
        THEN [it |-> Advance(it, Len(els)), out |-> TRUE]
        ELSE LET k == CHOOSE i \in bad : \A j \in bad : i <= j
             IN  [it |-> Advance(it, k), out |-> FALSE]

\* Iterator::size_hint as the trait provides it when an impl does not.
Default_size_hint(e) == <<0, None>>

(***************************************************************************)
(* impl Iterator / DoubleEndedIterator for Either<L, R>: the either! macro *)
(* matches the variant and calls the method on the payload, in place.      *)
(***************************************************************************)
InPlace(e, r) ==
    IF e.tag = "Left"
    THEN [it |-> Left(r.it), out |-> r.out]
    ELSE [it |-> Right(r.it), out |-> r.out]

Either_next(e) ==
    IF e.tag = "Left" THEN InPlace(e, Iter_next(e.val)) ELSE InPlace(e, Iter_next(e.val))

Either_size_hint(e) ==
    IF e.tag = "Left" THEN Iter_size_hint(e.val) ELSE Iter_size_hint(e.val)

Either_fold(e, init, f) ==
    IF e.tag = "Left" THEN Iter_fold(e.val, init, f) ELSE Iter_fold(e.val, init, f)

Either_count(e) == IF e.tag = "Left" THEN Iter_count(e.val) ELSE Iter_count(e.val)

Either_last(e) == IF e.tag = "Left" THEN Iter_last(e.val) ELSE Iter_last(e.val)

Either_nth(e, n) ==
    IF e.tag = "Left" THEN InPlace(e, Iter_nth(e.val, n)) ELSE InPlace(e, Iter_nth(e.val, n))

Either_collect(e) == IF e.tag = "Left" THEN Iter_collect(e.val) ELSE Iter_collect(e.val)

Either_all(e, p) ==
    IF e.tag = "Left" THEN InPlace(e, Iter_all(e.val, p)) ELSE InPlace(e, Iter_all(e.val, p))

Either_next_back(e) ==
    IF e.tag = "Left"
    THEN InPlace(e, Iter_next_back(e.val))
    ELSE InPlace(e, Iter_next_back(e.val))

\* Either::into_iter: the variant is kept, the payload becomes its iterator.
into_iter(e) == IF e.tag = "Left" THEN Left(VecIter(e.val)) ELSE Right(VecIter(e.val))

\* 0..10 of the test `iter`, and vec![1, 2, 3, 4, 5] of into_iter's example.
RangeEnd == 10

DocVec == <<1, 2, 3, 4, 5>>

\* Arguments of nth and of the predicate of all are drawn from 0..MaxNth.
MaxNth == 2

\* A call by &mut self: the iterator goes on living.
ByMut(o, a, r, ra) ==
    /\ ipc = "live"
    /\ iop' = o
    /\ iarg' = a
    /\ iprev' = iter
    /\ iter' = r.it
    /\ iret' = r.out
    /\ alone' = ra.it
    /\ aret' = ra.out
    /\ UNCHANGED ipc
    /\ UNCHANGED <<cvars, tvars, svars, mvars>>

\* A call by &self changes nothing; a call by self moves the iterator.
ByValue(o, a, r, ra, pc) ==
    /\ ipc = "live"
    /\ iop' = o
    /\ iarg' = a
    /\ iprev' = iter
    /\ iret' = r
    /\ aret' = ra
    /\ ipc' = pc
    /\ UNCHANGED <<iter, alone>>
    /\ UNCHANGED <<cvars, tvars, svars, mvars>>

IterNext == ByMut("next", NoArg, Either_next(iter), Iter_next(alone))

IterNextBack == ByMut("next_back", NoArg, Either_next_back(iter), Iter_next_back(alone))

IterNth ==
    \E n \in 0..MaxNth : ByMut("nth", <<n>>, Either_nth(iter, n), Iter_nth(alone, n))

IterAll ==
    \E p \in 0..MaxNth : ByMut("all", <<p>>, Either_all(iter, p), Iter_all(alone, p))

IterSizeHint ==
    ByValue("size_hint", NoArg, Either_size_hint(iter), Iter_size_hint(alone), "live")

IterCount == ByValue("count", NoArg, Either_count(iter), Iter_count(alone), "moved")

IterLast == ByValue("last", NoArg, Either_last(iter), Iter_last(alone), "moved")

IterCollect ==
    ByValue("collect", NoArg, Either_collect(iter), Iter_collect(alone), "moved")

IterFold ==
    \E f \in FoldFns :
        ByValue("fold", <<f>>, Either_fold(iter, 0, f), Iter_fold(alone, 0, f), "moved")

IterInputs ==
    {Left(Range(0, n)) : n \in 0..RangeEnd}
        \cup {into_iter(Right(SubSeq(DocVec, 1, n))) : n \in 0..Len(DocVec)}
        \cup {into_iter(Left(SubSeq(DocVec, 1, n))) : n \in 0..Len(DocVec)}

InitIter ==
    /\ MutIdle
    /\ StreamIdle
    /\ CombIdle
    /\ TryIdle
    /\ iter \in IterInputs
    /\ alone = iter.val
    /\ ipc = "live"
    /\ iop = "none"
    /\ iarg = NoArg
    /\ iprev = iter
    /\ iret = NoArg
    /\ aret = NoArg

NextIter ==
    \/ IterNext
    \/ IterNextBack
    \/ IterNth
    \/ IterAll
    \/ IterSizeHint
    \/ IterCount
    \/ IterLast
    \/ IterCollect
    \/ IterFold

SpecIter == InitIter /\ [][NextIter]_vars

\* C6: every call on an Either of two iterators returns what the same call
\* returns on the active iterator run alone and leaves the same iterator
\* state, in the same variant; Left(0..10) gives Some(0) on next() and then 9
\* on count(); an exhausted Either gives None on next().
C6_IterRefinesActive ==
    /\ iter.val = alone
    /\ iter.tag = iprev.tag
    /\ iop # "none" => iret = aret
    /\ (iop = "next" /\ iprev = Left(Range(0, 10))) =>
        iret = Some(0) /\ iter = Left(Range(1, 10))
    /\ (iop = "count" /\ iprev = Left(Range(1, 10))) => iret = 9
    /\ (iop \in {"next", "next_back"} /\ Len(Items(iprev.val)) = 0) =>
        iret = None /\ iter = iprev
    /\ iop = "size_hint" =>
        iret = <<Len(Items(iprev.val)), Some(Len(Items(iprev.val)))>>

C6_Witness ==
    /\ iop = "count"
    /\ iprev = Left(Range(1, 10))
    /\ iret = 9
    /\ ipc = "moved"

(***************************************************************************)
(* std::io on the streams the variants hold.  Each method returns the      *)
(* stream after the call, the io::Result, and the caller's buffer after    *)
(* the call.                                                               *)
(***************************************************************************)
Min(a, b) == IF a < b THEN a ELSE b

Unit == <<>>

Readers == {"Slice", "Stdin"}

Failing(st) == st.kind \in {"Stdin", "Stdout"} /\ st.err # "none"

Stream_read(st, buf) ==
    IF Failing(st)
    THEN [s |-> st, out |-> Err(st.err), buf |-> buf]
    ELSE LET amt == Min(Len(buf), Len(st.data))
         IN  [s |-> [st EXCEPT !.data = SubSeq(@, amt + 1, Len(@))],
              out |-> Ok(amt),
              buf |-> SubSeq(st.data, 1, amt) \o SubSeq(buf, amt + 1, Len(buf))]

Stream_read_to_end(st, vec) ==
    IF Failing(st)
    THEN [s |-> st, out |-> Err(st.err), buf |-> vec]
    ELSE [s |-> [st EXCEPT !.data = <<>>],
          out |-> Ok(Len(st.data)),
          buf |-> vec \o st.data]

Stream_fill_buf(st) ==
    IF Failing(st)
    THEN [s |-> st, out |-> Err(st.err), buf |-> <<>>]
    ELSE [s |-> st, out |-> Ok(st.data), buf |-> <<>>]

Stream_consume(st, amt) ==
    [s |-> [st EXCEPT !.data = SubSeq(@, amt + 1, Len(@))], out |-> Unit, buf |-> <<>>]

Stream_write(st, data) ==
    IF st.kind = "SliceMut"
    THEN LET amt == Min(Len(data), Len(st.buf) - st.pos)
         IN  [s |-> [st EXCEPT
                       !.buf = [i \in 1..Len(@) |->
                                  IF i > st.pos /\ i <= st.pos + amt
                                  THEN data[i - st.pos] ELSE @[i]],
                       !.pos = @ + amt],
              out |-> Ok(amt),
              buf |-> data]
    ELSE IF Failing(st)
    THEN [s |-> st, out |-> Err(st.err), buf |-> data]
    ELSE [s |-> [st EXCEPT !.data = @ \o data], out |-> Ok(Len(data)), buf |-> data]

Stream_flush(st) ==
    IF Failing(st)
    THEN [s |-> st, out |-> Err(st.err), buf |-> <<>>]
    ELSE [s |-> st, out |-> Ok(Unit), buf |-> <<>>]

(***************************************************************************)
(* impl Read / BufRead / Write for Either<L, R>.                           *)
(***************************************************************************)
InPlaceStream(e, r) ==
    IF e.tag = "Left"
    THEN [s |-> Left(r.s), out |-> r.out, buf |-> r.buf]
    ELSE [s |-> Right(r.s), out |-> r.out, buf |-> r.buf]

\* read on a copy of the payload: the bytes are returned, the stream stays.
Either_read_on_copy(e, buf) ==
    LET r == Stream_read(e.val, buf) IN [s |-> e, out |-> r.out, buf |-> r.buf]

Either_read(e, buf) ==
    IF e.tag = "Left"
    THEN InPlaceStream(e, Stream_read(e.val, buf))
    ELSE InPlaceStream(e, Stream_read(e.val, buf))

Either_read_to_end(e, vec) ==
    IF e.tag = "Left"
    THEN InPlaceStream(e, Stream_read_to_end(e.val, vec))
    ELSE InPlaceStream(e, Stream_read_to_end(e.val, vec))

Either_fill_buf(e) ==
    IF e.tag = "Left"
    THEN InPlaceStream(e, Stream_fill_buf(e.val))
    ELSE InPlaceStream(e, Stream_fill_buf(e.val))

Either_consume(e, amt) ==
    IF e.tag = "Left"
    THEN InPlaceStream(e, Stream_consume(e.val, amt))
    ELSE InPlaceStream(e, Stream_consume(e.val, amt))

Either_write(e, buf) ==
    IF e.tag = "Left"
    THEN InPlaceStream(e, Stream_write(e.val, buf))
    ELSE InPlaceStream(e, Stream_write(e.val, buf))

\* flush that drops the delegate's result.
Either_flush_ignored(e) == [s |-> e, out |-> Ok(Unit), buf |-> <<>>]

Either_flush(e) ==
    IF e.tag = "Left"
    THEN InPlaceStream(e, Stream_flush(e.val))
    ELSE InPlaceStream(e, Stream_flush(e.val))

\* The test `read_write`: mockdata = [0xff; 256], buf = [0u8; 16] to read
\* into, mockbuf = [0u8; 256] to write to, buf = [1u8; 16] to write.
MockLen == 256

MockByte == 255

BufLen == 16

WriteByte == 1

\* Other buffers have 0..MaxBuf bytes, other sources the bytes 1..MaxData,
\* and a stream is called at most MaxCalls times.
MaxBuf == 2

MaxData == 4

MaxCalls == 3

Fill(n, b) == [i \in 1..n |-> b]

Ramp == [i \in 1..MaxData |-> i]

BufLens == (0..MaxBuf) \cup {BufLen}

IoErrors == {"none", "Interrupted"}

StreamInputs ==
    {Right(Slice(Fill(MockLen, MockByte))), Right(Slice(Ramp))}
        \cup {Left(Stdin(Ramp, e)) : e \in IoErrors}
        \cup {Right(SliceMut(Fill(MockLen, 0), 0)), Right(SliceMut(Fill(MaxData, 0), 0))}
        \cup {Left(Stdout(<<>>, e)) : e \in IoErrors}

\* One call on stream and the same call on salone; got is what the call
\* handed out of the stream.
StreamCall(o, a, r, ra, got) ==
    /\ ncalls < MaxCalls
    /\ ncalls' = ncalls + 1
    /\ sop' = o
    /\ sarg' = a
    /\ sprev' = stream
    /\ stream' = r.s
    /\ sret' = r.out
    /\ dst' = r.buf
    /\ salone' = ra.s
    /\ saret' = ra.out
    /\ adst' = ra.buf
    /\ sgot' = sgot \o got
    /\ UNCHANGED sorig
    /\ UNCHANGED <<cvars, tvars, ivars, mvars>>

Read ==
    /\ stream.val.kind \in Readers
    /\ \E n \in BufLens :
        LET r == Either_read(stream, Fill(n, 0))
        IN  StreamCall("read", Fill(n, 0), r, Stream_read(salone, Fill(n, 0)),
                       IF r.out.tag = "Ok" THEN SubSeq(r.buf, 1, r.out.val) ELSE <<>>)

ReadToEnd ==
    /\ stream.val.kind \in Readers
    /\ \E vec \in {<<>>, <<0>>} :
        LET r == Either_read_to_end(stream, vec)
        IN  StreamCall("read_to_end", vec, r, Stream_read_to_end(salone, vec),
                       SubSeq(r.buf, Len(vec) + 1, Len(r.buf)))

FillBuf ==
    /\ stream.val.kind \in Readers
    /\ StreamCall("fill_buf", NoArg, Either_fill_buf(stream), Stream_fill_buf(salone), <<>>)

\* consume(amt) is called with at most the bytes fill_buf returned.
Consume ==
    /\ stream.val.kind \in Readers
    /\ ~Failing(stream.val)
    /\ \E amt \in 0..MaxBuf :
        /\ amt <= Len(stream.val.data)
        /\ StreamCall("consume", <<amt>>, Either_consume(stream, amt),
                      Stream_consume(salone, amt), SubSeq(stream.val.data, 1, amt))

Write ==
    /\ stream.val.kind \notin Readers
    /\ \E n \in BufLens :
        StreamCall("write", Fill(n, WriteByte), Either_write(stream, Fill(n, WriteByte)),
                   Stream_write(salone, Fill(n, WriteByte)), <<>>)

Flush ==
    /\ stream.val.kind \notin Readers
    /\ StreamCall("flush", NoArg, Either_flush(stream), Stream_flush(salone), <<>>)

InitIO ==
    /\ MutIdle
    /\ CombIdle
    /\ TryIdle
    /\ IterIdle
    /\ stream \in StreamInputs
    /\ salone = stream.val
    /\ sorig = stream
    /\ sgot = <<>>
    /\ sop = "none"
    /\ sarg = NoArg
    /\ sprev = stream
    /\ sret = NoArg
    /\ saret = NoArg
    /\ dst = <<>>
    /\ adst = <<>>
    /\ ncalls = 0

NextIO ==
    \/ Read
    \/ ReadToEnd
    \/ FillBuf
    \/ Consume
    \/ Write
    \/ Flush

SpecIO == InitIO /\ [][NextIO]_vars

\* C8: a byte-stream call on an Either returns what the same call returns on
\* the active stream alone and leaves that stream, and the caller's buffer,
\* in the same state; the bytes handed out so far followed by the bytes left
\* are the source, so each read goes on where the last stopped and nothing
\* is held back.  Reading Right(256 bytes 0xFF) into 16 bytes returns 16 and
\* fills them with 0xFF; writing 16 bytes 0x01 to Right(256-byte buffer)
\* returns 16 and copies them.
C8_StreamRefinesActive ==
    /\ stream.val = salone
    /\ stream.tag = sorig.tag
    /\ sop # "none" => sret = saret /\ dst = adst
    /\ (stream.val.kind \in Readers /\ ~Failing(stream.val)) =>
        sgot \o stream.val.data = sorig.val.data
    /\ (sop = "read" /\ sprev = Right(Slice(Fill(MockLen, MockByte))) /\ Len(sarg) = BufLen) =>
        /\ sret = Ok(BufLen)
        /\ dst = Fill(BufLen, MockByte)
        /\ Len(stream.val.data) = MockLen - BufLen
    /\ (sop = "write" /\ sprev = Right(SliceMut(Fill(MockLen, 0), 0)) /\ Len(sarg) = BufLen) =>
        /\ sret = Ok(BufLen)
        /\ SubSeq(stream.val.buf, 1, BufLen) = Fill(BufLen, WriteByte)
        /\ SubSeq(stream.val.buf, BufLen + 1, MockLen) = Fill(MockLen - BufLen, 0)
        /\ stream.val.pos = BufLen

C8_Witness ==
    /\ sop = "read"
    /\ ncalls = 2
    /\ sorig = Right(Slice(Ramp))
    /\ sprev = Right(Slice(SubSeq(Ramp, 3, MaxData)))
    /\ Len(sarg) = 1
    /\ sret = Ok(1)
    /\ dst = <<3>>

\* C12: when the active stream fails a read, read_to_end, fill_buf, write or
\* flush, the Either returns that error as it is, is left as it was, in the
\* same variant, and the caller's buffer is as the delegate left it; when
\* the active stream succeeds, the Either returns Ok.
C12_ErrorsPropagate ==
    sop \in {"read", "read_to_end", "fill_buf", "write", "flush"} =>
        /\ Failing(sprev.val) =>
            /\ sret = Err(sprev.val.err)
            /\ stream = sprev
            /\ sgot = <<>>
            /\ sop \in {"read", "read_to_end", "write"} => dst = sarg
        /\ ~Failing(sprev.val) => sret.tag = "Ok"
        /\ sret.tag = "Err" => Failing(sprev.val) /\ sret = saret

C12_Witness ==
    /\ sop = "flush"
    /\ ncalls = 2
    /\ sprev = Left(Stdout(<<>>, "Interrupted"))
    /\ sret = Err("Interrupted")
    /\ stream = sprev

(***************************************************************************)
(* Operations that take an Either by &mut: writes through as_mut(), as in  *)
(* mutate_left of as_mut's documentation; Extend; DerefMut; and, on an     *)
(* Either of iterators or of streams, the methods modelled above.  A       *)
(* `let mut` binding can also be assigned a new value, as e = r in the     *)
(* test `basic`.                                                           *)
(***************************************************************************)

\* *r = x for a reference r into e: the payload slot r names is overwritten.
Store(e, r, x) == IF e.tag = r.slot THEN [e EXCEPT !.val = x] ELSE e

\* r[i] = x for a reference r to the slice a Vec payload derefs to.
StoreAt(e, r, i, x) ==
    IF e.tag = r.slot THEN [e EXCEPT !.val = [@ EXCEPT ![i] = x]] ELSE e

\* if let Some(l) = value.as_mut().left() { *l = x; }
mutate_left(v, x) ==
    LET o == left(as_mut(v)) IN IF o.tag = "Some" THEN Store(v, o.val, x) ELSE v

\* if let Some(r) = value.as_mut().right() { *r = x; }
mutate_right(v, x) ==
    LET o == right(as_mut(v)) IN IF o.tag = "Some" THEN Store(v, o.val, x) ELSE v

\* impl Extend for Either: inner.extend(iter), and Vec::extend appends.
Either_extend(e, items) ==
    IF e.tag = "Left" THEN Left(e.val \o items) ELSE Right(e.val \o items)

\* impl DerefMut for Either: &mut *inner, a reference into the payload.
deref_mut(e) == IF e.tag = "Left" THEN Ref("Left", TRUE) ELSE Ref("Right", TRUE)

\* let mut left = Left(123) and *l = 999 of as_mut's documentation.
DocVal == 123

NewVal == 999

\* A Vec payload has at most MaxVecLen items.
MaxVecLen == 5

NumVals == Vals \cup {DocVal}

NumInputs == Either(NumVals, NumVals)

VecInputs == Either({<<>>, <<1>>}, {<<>>, <<1>>})

MutStep(o, a, v) ==
    /\ mop' = o
    /\ marg' = a
    /\ mprev' = mval
    /\ mval' = v
    /\ UNCHANGED subject
    /\ UNCHANGED <<cvars, tvars, ivars, svars>>

MutateLeft ==
    /\ subject = "num"
    /\ \E x \in Vals \cup {NewVal} : MutStep("mutate_left", x, mutate_left(mval, x))

MutateRight ==
    /\ subject = "num"
    /\ \E x \in Vals \cup {NewVal} : MutStep("mutate_right", x, mutate_right(mval, x))

\* e = r: the whole value is replaced.
Assign ==
    /\ subject \in {"num", "vec"}
    /\ \E r \in (IF subject = "num" THEN NumInputs ELSE VecInputs) :
        MutStep("assign", r, r)

Extend ==
    /\ subject = "vec"
    /\ \E n \in 0..Len(DocVec) :
        /\ Len(mval.val) + n <= MaxVecLen
        /\ MutStep("extend", SubSeq(DocVec, 1, n), Either_extend(mval, SubSeq(DocVec, 1, n)))

\* e[i] = 999 through deref_mut.
DerefMutWrite ==
    /\ subject = "vec"
    /\ \E i \in 1..Len(mval.val) :
        MutStep("deref_mut", i, StoreAt(mval, deref_mut(mval), i, NewVal))

MutIter ==
    /\ subject = "iter"
    /\ \/ IterNext
       \/ IterNextBack
       \/ IterNth
       \/ IterAll

MutStream ==
    /\ subject = "stream"
    /\ \/ Read
       \/ ReadToEnd
       \/ FillBuf
       \/ Consume
       \/ Write
       \/ Flush

IterStart ==
    /\ iter \in IterInputs
    /\ alone = iter.val
    /\ ipc = "live"
    /\ iop = "none"
    /\ iarg = NoArg
    /\ iprev = iter
    /\ iret = NoArg
    /\ aret = NoArg

StreamStart ==
    /\ stream \in StreamInputs
    /\ salone = stream.val
    /\ sorig = stream
    /\ sgot = <<>>
    /\ sop = "none"
    /\ sarg = NoArg
    /\ sprev = stream
    /\ sret = NoArg
    /\ saret = NoArg
    /\ dst = <<>>
    /\ adst = <<>>
    /\ ncalls = 0

MutStart(sub, inputs) ==
    /\ subject = sub
    /\ mval \in inputs
    /\ mprev = mval
    /\ mop = "none"
    /\ marg = NoArg

InitMut ==
    /\ CombIdle
    /\ TryIdle
    /\ \/ MutStart("num", NumInputs) /\ IterIdle /\ StreamIdle
       \/ MutStart("vec", VecInputs) /\ IterIdle /\ StreamIdle
       \/ MutStart("iter", {Left(0)}) /\ IterStart /\ StreamIdle
       \/ MutStart("stream", {Left(0)}) /\ IterIdle /\ StreamStart

NextMut ==
    \/ MutateLeft
    \/ MutateRight
    \/ Assign
    \/ Extend
    \/ DerefMutWrite
    \/ MutIter
    \/ MutStream

SpecMut == InitMut /\ [][NextMut]_vars

\* C11: no operation that takes the Either by &mut changes its variant: a
\* step of next, nth, all, next_back, extend, read, read_to_end, fill_buf,
\* consume, write, flush, a write through deref_mut or through as_mut()
\* leaves the variant as it was, and only an assignment of a whole value may
\* change it.  A write through as_mut().left() replaces the payload of a
\* Left value and leaves a Right value as it is; as_mut().right() mirrors it.
C11_BranchKept ==
    [][/\ iter'.tag = iter.tag
       /\ stream'.tag = stream.tag
       /\ mop' # "assign" => mval'.tag = mval.tag
       /\ mop' = "mutate_left" =>
            mval' = (IF mval.tag = "Left" THEN Left(marg') ELSE mval)
       /\ mop' = "mutate_right" =>
            mval' = (IF mval.tag = "Right" THEN Right(marg') ELSE mval)
       /\ mop' = "extend" => mval'.val = mval.val \o marg'
       /\ mop' = "deref_mut" =>
            /\ Len(mval'.val) = Len(mval.val)
            /\ \A i \in 1..Len(mval.val) :
                mval'.val[i] = (IF i = marg' THEN NewVal ELSE mval.val[i])]_vars

C11_Witness ==
    /\ mop = "mutate_left"
    /\ mprev = Right(DocVal)
    /\ marg = NewVal
    /\ mval = Right(DocVal)

(***************************************************************************)
(* Properties of the combinators, checked under Spec.                      *)
(***************************************************************************)

\* C1: Result -> Either -> Result and Either -> Result -> Either are exact
\* round trips, with Err paired with Left and Ok with Right, never swapped.
C1_ResultRoundTrip ==
    /\ op = "from" =>
        /\ res.tag = "Err" => ret = Left(res.val)
        /\ res.tag = "Ok" => ret = Right(res.val)
        /\ into(ret) = res
    /\ op = "into" =>
        /\ self.tag = "Left" => ret = Err(self.val)
        /\ self.tag = "Right" => ret = Ok(self.val)
        /\ from(ret) = self

C1_Witness == op = "from" /\ res = Err(1) /\ ret = Left(1)

\* C2: flip swaps the variant, keeps the payload, and flipping the flipped
\* value gives the original back.
C2_FlipInvolution ==
    op = "flip" =>
        /\ self.tag = "Left" => ret = Right(self.val)
        /\ self.tag = "Right" => ret = Left(self.val)
        /\ flip(ret) = self

C2_Witness == op = "flip" /\ self = Right(2) /\ ret = Left(2)

\* C3: exactly one of left(), right() is Some and it holds the payload;
\* is_left is "left() is Some"; is_right is the negation of is_left; the
\* views as_ref() and as_mut() have the variant of the value and their
\* reference leads to its payload.
ViewAgrees(view) ==
    /\ view.tag = self.tag
    /\ is_left(view) = is_left(self)
    /\ (left(view).tag = "Some") # (right(view).tag = "Some")
    /\ (left(view).tag = "Some") = (self.tag = "Left")
    /\ left(view).tag = "Some" => Deref(self, left(view).val) = Some(self.val)
    /\ right(view).tag = "Some" => Deref(self, right(view).val) = Some(self.val)

C3_BranchExclusive ==
    /\ (left(self).tag = "Some") # (right(self).tag = "Some")
    /\ left(self).tag = "Some" => left(self).val = self.val
    /\ right(self).tag = "Some" => right(self).val = self.val
    /\ is_left(self) = (left(self).tag = "Some")
    /\ is_right(self) = ~is_left(self)
    /\ is_right(self) = (right(self).tag = "Some")
    /\ ViewAgrees(as_ref(self))
    /\ ViewAgrees(as_mut(self))
    /\ op = "is_left" => ret = (self.tag = "Left")
    /\ op = "is_right" => ret = (self.tag = "Right")
    /\ op = "left" => ret = (IF self.tag = "Left" THEN Some(self.val) ELSE None)
    /\ op = "right" => ret = (IF self.tag = "Right" THEN Some(self.val) ELSE None)
    /\ op \in {"as_ref", "as_mut"} => ret.tag = self.tag /\ ret.val.slot = self.tag

C3_Witness == op = "right" /\ self = Right(2) /\ ret = Some(2) /\ left(self) = None

\* C4: either(f, g) returns f(l) on Left(l) and g(r) on Right(r) and invokes
\* exactly that one function, once; either_with does the same and hands the
\* context over unmodified as the first argument.
C4_Eliminate ==
    /\ op = "either" =>
        /\ self.tag = "Left" =>
            /\ ret = ApplyFn(arg[1], self.val)
            /\ log = <<[who |-> "f", arg |-> self.val]>>
        /\ self.tag = "Right" =>
            /\ ret = ApplyFn(arg[2], self.val)
            /\ log = <<[who |-> "g", arg |-> self.val]>>
    /\ op = "either_with" =>
        /\ self.tag = "Left" =>
            /\ ret = ApplyCtxFn(arg.f, arg.ctx, self.val)
            /\ log = <<[who |-> "f", ctx |-> arg.ctx, arg |-> self.val]>>
        /\ self.tag = "Right" =>
            /\ ret = ApplyCtxFn(arg.g, arg.ctx, self.val)
            /\ log = <<[who |-> "g", ctx |-> arg.ctx, arg |-> self.val]>>

C4_Witness ==
    /\ op = "either_with"
    /\ self = Right(2)
    /\ arg = [ctx |-> <<2>>, f |-> "push", g |-> "push_neg"]
    /\ ret = <<2, 0 - 2>>
    /\ Len(log) = 1

\* C5: map_left leaves Right(r) as it is and map_right leaves Left(l) as it
\* is, without invoking f; on the matching variant f is invoked once and its
\* result stays in that variant.
C5_MapBranchLocal ==
    /\ op = "map_left" =>
        /\ self.tag = "Right" => ret = self /\ log = <<>>
        /\ self.tag = "Left" =>
            /\ ret = Left(ApplyFn(arg[1], self.val))
            /\ log = <<[who |-> "f", arg |-> self.val]>>
    /\ op = "map_right" =>
        /\ self.tag = "Left" => ret = self /\ log = <<>>
        /\ self.tag = "Right" =>
            /\ ret = Right(ApplyFn(arg[1], self.val))
            /\ log = <<[who |-> "f", arg |-> self.val]>>

C5_Witness ==
    op = "map_left" /\ self = Right(1) /\ arg = <<"double">> /\ ret = Right(1) /\ log = <<>>

\* C9: factor_first and factor_second return the shared field as it was and
\* the remaining field in the variant of the input, so that pairing the two
\* outputs again gives the input.
C9_Factor ==
    /\ op = "factor_first" =>
        /\ ret[1] = pair.val[1]
        /\ ret[2] = [tag |-> pair.tag, val |-> pair.val[2]]
        /\ [tag |-> ret[2].tag, val |-> <<ret[1], ret[2].val>>] = pair
    /\ op = "factor_second" =>
        /\ ret[2] = pair.val[2]
        /\ ret[1] = [tag |-> pair.tag, val |-> pair.val[1]]
        /\ [tag |-> ret[1].tag, val |-> <<ret[1].val, ret[2]>>] = pair

C9_Witness ==
    op = "factor_first" /\ pair = Right(<<1, 2>>) /\ ret = <<1, Right(2)>>

\* C10: left_and_then returns f(l) on Left(l), whatever variant f returns, and
\* Right(r) as it is without invoking f; right_and_then is the mirror.  With
\* f = Left, left_and_then is the identity, and its result is Left only if
\* the input was.
C10_AndThen ==
    /\ op = "left_and_then" =>
        /\ self.tag = "Left" =>
            /\ ret = ApplyEitherFn(arg[1], self.val)
            /\ log = <<[who |-> "f", arg |-> self.val]>>
        /\ self.tag = "Right" => ret = self /\ log = <<>>
        /\ arg[1] = "Left" => ret = self
        /\ ret.tag = "Left" => self.tag = "Left"
    /\ op = "right_and_then" =>
        /\ self.tag = "Right" =>
            /\ ret = ApplyEitherFn(arg[1], self.val)
            /\ log = <<[who |-> "f", arg |-> self.val]>>
        /\ self.tag = "Left" => ret = self /\ log = <<>>

C10_Witness ==
    /\ op = "left_and_then"
    /\ self = Left(2)
    /\ arg = <<"RightDouble">>
    /\ ret = Right(4)
    /\ Len(log) = 1

====
